---- MODULE Spec2Model ----
(***************************************************************************)
(* StreamGrab: the download endpoint (home/views.py), the YouTube          *)
(* downloader (home/youtube_downloader.py) and the streaming file server.  *)
(*                                                                         *)
(* Two requests are handled by two server threads that share one download  *)
(* directory.  A request is cut into steps at every call that leaves the   *)
(* process or touches the shared directory (engine call, mux process,      *)
(* getsize, open, read, exists, remove); what lies between two such calls  *)
(* is local to the thread and belongs to the step that follows it.         *)
(*                                                                         *)
(* Filesystem conventions of the model:                                    *)
(*   - a file name is the sequence of the title's characters followed by   *)
(*     its suffix, so that names of different titles can coincide;         *)
(*   - the server owns its download directory, so os.remove fails only on  *)
(*     a path that no longer exists (FileNotFoundError);                   *)
(*   - an open handle keeps the bytes it was opened on (POSIX unlink);     *)
(*   - a fetch or a mux run that fails writes no file, one that succeeds   *)
(*     replaces whatever is at its output path;                            *)
(*   - the client reads every response body to exhaustion.                 *)
(***************************************************************************)
EXTENDS Integers, Sequences, FiniteSets, TLC

\* ---------------------------------------------------------------- bounds

\* Largest number of full chunks in a served file.
MaxChunks == 2

\* Longest format list the extraction engine reports (pure-function runs).
MaxFormats == 2

\* ------------------------------------------------------ program constants

\* file_iterator(path, chunk_size=8192)
chunk_size == 8192

\* Mutant: two neighbouring labels of the list swapped.
quality_preference_swapped ==
    <<"2160p", "1440p", "1080p", "360p", "480p", "720p", "240p", "144p">>

\* quality_preference of _find_best_quality_match
quality_preference ==
    <<"2160p", "1440p", "1080p", "720p", "480p", "360p", "240p", "144p">>

\* ------------------------------------------------------------ the inputs

Reqs == {1, 2}

\* Video titles as the engine reports them, as character sequences: two of
\* them differ only in a character that sanitize_filename removes, and one
\* is another one followed by the suffix of an intermediate file.
RawTitles == {<<"a">>, <<"a", "?">>, <<"a", "_video">>, <<"b">>}

NoPath == <<>>

\* Codec names are character sequences, so that Python's substring test
\* ("audio" in acodec) is computed and not assumed.
CodecNone == <<"n", "o", "n", "e">>

CodecMp4a == <<"m", "p", "4", "a">>

\* A codec name that contains the substring the code tests for.
CodecAudioTagged == <<"a", "a", "c", "_", "a", "u", "d", "i", "o">>

\* The format record has no 'acodec' key.
KeyAbsent == <<"<absent>">>

\* abr is None
NoAbr == -1

\* Python None as a quality label / title
NoQuality == "None"

FormatNotes == {"", "240p", "4320p"}

\* 0 is f.get('height', 0) of a format without a height.
Heights == {0, 360, 720, 2160}

\* A height that is reported and is none of the six.
OtherHeight == 240

Format(note, height, acodec, abr) ==
    [format_note |-> note, height |-> height, acodec |-> acodec, abr |-> abr]

\* Sizes of the files the engines write: around every chunk boundary.
FileSizes == {k * chunk_size + d : k \in 0..MaxChunks, d \in {0, 1}}

\* The intermediates' sizes are never read by the program.
TempSize == chunk_size + 1

\* ------------------------------------------------------------- the state

VARIABLES
    pc,         \* each request's position in its handler
    req,        \* each request's body and what the extraction engine answers
    avail,      \* available_formats of download_video
    sel,        \* selected_quality, and the return statement that produced it
    audio_id,   \* audio_id of _download_and_merge
    fs,         \* the download directory: path -> file
    result,     \* the downloader's result dictionary
    resp,       \* the HTTP response of the view
    handle,     \* bytes left behind the open file of file_iterator
    chunks,     \* lengths of the chunks yielded so far
    tmp_i,      \* index of the temp file the cleanup loop is at
    ops         \* the operations invoked, in order, each with its outcome

vars == <<pc, req, avail, sel, audio_id, fs, result, resp, handle,
          chunks, tmp_i, ops>>

\* handle: no file opened yet / the file closed after the last read
NotOpen == -1

Closed == -2

\* Files
NoFile == [size |-> -1, by |-> 0]

File(size, r) == [size |-> size, by |-> r]

Exists(p) == fs[p] # NoFile

\* Paths of _download_and_merge / _download_progressive, in the download
\* folder: f"{video_title}_video.mp4", f"{video_title}_audio.mp4" and
\* f"{video_title}.mp4"
video_file(title) == title \o <<"_video", ".mp4">>

audio_file(title) == title \o <<"_audio", ".mp4">>

output_file(title) == title \o <<".mp4">>

\* Result dictionaries
NoResult ==
    [status |-> "none", message |-> "", file_path |-> NoPath, temp_files |-> <<>>]

Error(msg) ==
    [status |-> "error", message |-> msg, file_path |-> NoPath, temp_files |-> <<>>]

Success(path, temps) ==
    [status |-> "success", message |-> "", file_path |-> path, temp_files |-> temps]

\* HTTP responses
NoResponse == [kind |-> "none", status |-> 0, error |-> "", length |-> -1]

JsonResponse(err, code) ==
    [kind |-> "json", status |-> code, error |-> err, length |-> -1]

StreamingHttpResponse(len) ==
    [kind |-> "stream", status |-> 200, error |-> "", length |-> len]

\* The empty dictionary
EmptyMap == [k \in {} |-> [id |-> 0, type |-> ""]]

NoSel == [value |-> NoQuality, ret |-> "none"]

\* ------------------------------------------------------- pure functions

\* The characters of r'[<>:"/\\|?*]' (both sanitizers use the same class).
IllegalChars == {"<", ">", ":", "\"", "/", "\\", "|", "?", "*"}

RECURSIVE LStrip(_)
LStrip(s) == IF s # <<>> /\ Head(s) = " " THEN LStrip(Tail(s)) ELSE s

RECURSIVE RStrip(_)
RStrip(s) ==
    IF s # <<>> /\ s[Len(s)] = " " THEN RStrip(SubSeq(s, 1, Len(s) - 1)) ELSE s

IsLegal(c) == c \notin IllegalChars

\* YouTubeDownloader.sanitize_filename: re.sub(class, '', filename).strip()
sanitize_filename(filename) == RStrip(LStrip(SelectSeq(filename, IsLegal)))

\* views.sanitize_filename: re.sub(class, "_", name)
views_sanitize_filename(name) ==
    [i \in 1..Len(name) |-> IF IsLegal(name[i]) THEN name[i] ELSE "_"]

Titles ==
    {sanitize_filename(t) : t \in RawTitles}
        \cup {views_sanitize_filename(t) : t \in RawTitles}

\* Every file name a request can use.
Paths ==
    UNION {{output_file(t), video_file(t), audio_file(t)} : t \in Titles}

\* "audio" in c
ContainsAudio(c) ==
    \E i \in 1..(Len(c) - 4) :
        SubSeq(c, i, i + 4) = <<"a", "u", "d", "i", "o">>

\* f.get('acodec', 'none')
AcodecOrNone(f) == IF f.acodec = KeyAbsent THEN CodecNone ELSE f.acodec

\* Mutant: a format whose height is none of the six is given no resolution,
\* whatever its format_note.
ResolutionCanonicalOnly(f) ==
    CASE f.height = 2160 -> "2160p"
      [] f.height = 1440 -> "1440p"
      [] f.height = 1080 -> "1080p"
      [] f.height = 720 -> "720p"
      [] f.height = 480 -> "480p"
      [] f.height = 360 -> "360p"
      [] OTHER -> ""

\* The resolution of one format: format_note, overridden for six heights.
Resolution(f) ==
    CASE f.height = 2160 -> "2160p"
      [] f.height = 1440 -> "1440p"
      [] f.height = 1080 -> "1080p"
      [] f.height = 720 -> "720p"
      [] f.height = 480 -> "480p"
      [] f.height = 360 -> "360p"
      [] OTHER -> f.format_note

\* The entry stored for format number i (its format_id).
QualityEntry(f, i) ==
    IF ContainsAudio(AcodecOrNone(f))
    THEN [id |-> i, type |-> "progressive"]
    ELSE [id |-> i, type |-> "video"]

\* The loop of get_video_info over info['formats']: a later format
\* overwrites an earlier one at the same resolution.
RECURSIVE BuildQualities(_, _, _)
BuildQualities(formats, i, acc) ==
    IF i > Len(formats) THEN acc
    ELSE LET f == formats[i]
             resolution == Resolution(f)
         IN BuildQualities(formats, i + 1,
                IF resolution # ""
                THEN (resolution :> QualityEntry(f, i)) @@ acc
                ELSE acc)

available_qualities(formats) == BuildQualities(formats, 1, EmptyMap)

\* First loop of _find_best_quality_match: returns only for 'best'.
RECURSIVE ScanPreference(_, _, _)
ScanPreference(requested, available, i) ==
    IF i > Len(quality_preference) THEN NoQuality
    ELSE IF quality_preference[i] \in DOMAIN available /\ requested = "best"
         THEN quality_preference[i]
         ELSE ScanPreference(requested, available, i + 1)

\* Mutant: the second loop without reversed(), so it returns the first
\* label present instead of the last.
ScanForward(available, i) ==
    LET present == {j \in 1..Len(quality_preference) :
                       quality_preference[j] \in DOMAIN available}
    IN IF present = {} THEN NoQuality
       ELSE quality_preference[CHOOSE j \in present : \A k \in present : j <= k]

\* Second loop: reversed(quality_preference), from index i down.
RECURSIVE ScanReversed(_, _)
ScanReversed(available, i) ==
    IF i < 1 THEN NoQuality
    ELSE IF quality_preference[i] \in DOMAIN available
         THEN quality_preference[i]
         ELSE ScanReversed(available, i - 1)

\* _find_best_quality_match, with the return statement taken.
find_best_quality_match(requested, available) ==
    IF requested \in DOMAIN available
    THEN [value |-> requested, ret |-> "exact"]
    ELSE LET first == ScanPreference(requested, available, 1)
         IN IF first # NoQuality
            THEN [value |-> first, ret |-> "first_loop"]
            ELSE IF requested = "worst"
                    /\ ScanReversed(available, Len(quality_preference)) # NoQuality
                 THEN [value |-> ScanReversed(available, Len(quality_preference)),
                       ret |-> "second_loop"]
                 ELSE [value |-> NoQuality, ret |-> "end"]

\* The candidates of best_audio: acodec != 'none' and abr is not None
\* (f.get('acodec') of a format without the key is None, which is != 'none').
AudioCandidates(formats) ==
    {i \in 1..Len(formats) :
        formats[i].acodec # CodecNone /\ formats[i].abr # NoAbr}

\* max(..., key=abr, default=None): the first candidate of maximal abr;
\* 0 stands for None.
best_audio(formats) ==
    LET cands == AudioCandidates(formats)
    IN IF cands = {} THEN 0
       ELSE CHOOSE i \in cands :
                \A j \in cands :
                    \/ formats[j].abr < formats[i].abr
                    \/ (formats[j].abr = formats[i].abr /\ i <= j)

\* -------------------------------------------------- requests and engine

\* URLs by the classes the handler tells apart: no URL, a YouTube watch URL,
\* a URL that contains 'youtube.com' but does not match youtube_regex from
\* its first character, and a URL of another platform.
UrlEmpty == ""

UrlYouTube == "https://www.youtube.com/watch?v=x"

UrlYouTubeOdd == "ftp://youtube.com/x"

UrlOther == "https://vimeo.com/1"

\* views.get_platform, on the URL classes
get_platform(url) ==
    IF url \in {UrlYouTube, UrlYouTubeOdd} THEN "youtube" ELSE "other"

\* YouTubeDownloader.is_youtube_url, on the URL classes
is_youtube_url(url) == url = UrlYouTube

\* What the extraction engine answers: it raises, returns None, or returns
\* an info dictionary; size is the length of the final media file the fetch
\* engine or the mux tool writes for this request.
EngineRaises == [kind |-> "raise", title |-> <<>>, formats |-> <<>>, size |-> 0]

EngineNone == [kind |-> "none", title |-> <<>>, formats |-> <<>>, size |-> 0]

EngineInfo(title, formats, size) ==
    [kind |-> "info", title |-> title, formats |-> formats, size |-> size]

Request(json_ok, url, quality, engine) ==
    [json_ok |-> json_ok, url |-> url, quality |-> quality, engine |-> engine]

\* Format lists of the request runs: nothing, a video-only format alone,
\* a video-only format with an audio track, one whose only bitrate sits on a
\* format without an 'acodec' key, a format the code takes for progressive,
\* and a format that only has a format_note.
FormatSamples ==
    { <<>>,
      <<Format("", 720, CodecNone, NoAbr)>>,
      <<Format("", 720, CodecNone, NoAbr), Format("", 0, CodecMp4a, 128)>>,
      <<Format("", 720, CodecNone, NoAbr), Format("", 0, KeyAbsent, 128)>>,
      <<Format("", 360, CodecAudioTagged, 96)>>,
      <<Format("4320p", 0, CodecNone, NoAbr)>> }

BadRequests ==
    { Request(FALSE, UrlEmpty, "best", EngineNone),
      Request(TRUE, UrlEmpty, "best", EngineNone),
      Request(TRUE, UrlYouTubeOdd, "best", EngineNone) }

\* Every request of the single-request runs.
AllRequests ==
    BadRequests
    \cup {Request(TRUE, u, q, e) :
            u \in {UrlYouTube, UrlOther}, q \in {"best", "1440p"},
            e \in {EngineRaises, EngineNone}}
    \cup {Request(TRUE, u, q, EngineInfo(t, f, s)) :
            u \in {UrlYouTube, UrlOther}, q \in {"best", "1440p"},
            t \in RawTitles, f \in FormatSamples, s \in FileSizes}

\* The format lists of the two-request runs: a video-only format without
\* and with an audio track, and a format the code takes for progressive.
ConcurrentFormats ==
    { <<Format("", 720, CodecNone, NoAbr)>>,
      <<Format("", 720, CodecNone, NoAbr), Format("", 0, CodecMp4a, 128)>>,
      <<Format("", 360, CodecAudioTagged, 96)>> }

\* The requests of the two-request runs: one file size.
ConcurrentRequests ==
    BadRequests
    \cup {Request(TRUE, UrlYouTube, "best", e) :
            e \in {EngineRaises, EngineNone, EngineInfo(<<"a">>, <<>>, TempSize)}}
    \cup {Request(TRUE, UrlOther, "best", EngineInfo(t, <<>>, TempSize)) :
            t \in {<<"a">>, <<"a", "?">>}}
    \cup {Request(TRUE, UrlYouTube, "best", EngineInfo(t, f, TempSize)) :
            t \in RawTitles, f \in ConcurrentFormats}

\* Every format the engine can report over the sampled notes and heights,
\* with or without an audio codec.
MatchFormats ==
    {Format(n, h, c[1], c[2]) :
        n \in FormatNotes, h \in Heights,
        c \in {<<CodecNone, NoAbr>>, <<CodecMp4a, 128>>,
               <<CodecAudioTagged, 128>>}}
    \cup {Format(n, OtherHeight, CodecNone, NoAbr) : n \in FormatNotes}

FormatLists == UNION {[1..k -> MatchFormats] : k \in 0..MaxFormats}

MatchQualities == {"best", "worst", "720p"}

\* The requests of the quality-resolution runs: every format list.
MatchRequests ==
    {Request(TRUE, UrlYouTube, q, EngineInfo(<<"a">>, f, 1)) :
        q \in MatchQualities, f \in FormatLists}

Idle == Request(TRUE, UrlEmpty, "best", EngineNone)

\* ------------------------------------------------------------------ Init

InitRest ==
    /\ avail = [r \in Reqs |-> EmptyMap]
    /\ sel = [r \in Reqs |-> NoSel]
    /\ audio_id = [r \in Reqs |-> 0]
    /\ fs = [p \in Paths |-> NoFile]
    /\ result = [r \in Reqs |-> NoResult]
    /\ resp = [r \in Reqs |-> NoResponse]
    /\ handle = [r \in Reqs |-> NotOpen]
    /\ chunks = [r \in Reqs |-> <<>>]
    /\ tmp_i = [r \in Reqs |-> 0]
    /\ ops = [r \in Reqs |-> <<>>]

\* Two requests arrive at a server with an empty download directory.
Init ==
    /\ pc = [r \in Reqs |-> "receive"]
    /\ req \in [Reqs -> ConcurrentRequests]
    /\ InitRest

\* One request arrives.
InitSolo ==
    /\ pc = [r \in Reqs |-> IF r = 1 THEN "receive" ELSE "off"]
    /\ req \in {[r \in Reqs |-> IF r = 1 THEN q ELSE Idle] : q \in AllRequests}
    /\ InitRest

\* One request has reached the downloader: metadata and quality resolution
\* over every format list.
InitMatch ==
    /\ pc = [r \in Reqs |-> IF r = 1 THEN "extract" ELSE "off"]
    /\ req \in {[r \in Reqs |-> IF r = 1 THEN q ELSE Idle] : q \in MatchRequests}
    /\ InitRest

\* --------------------------------------------------------------- actions

Title(r) == sanitize_filename(req[r].engine.title)

\* Request r has invoked op, which succeeded (ok) or failed.
Invoke(r, op, ok) == ops' = [ops EXCEPT ![r] = Append(@, [op |-> op, ok |-> ok])]

\* views.download_video, line 143: every error result of the downloader
\* becomes a JSON error with status 400.
ErrorStatus == 400

\* The downloader returned an error dictionary: the view answers with it.
Fail(r, msg) ==
    /\ result' = [result EXCEPT ![r] = Error(msg)]
    /\ resp' = [resp EXCEPT ![r] = JsonResponse(msg, ErrorStatus)]
    /\ pc' = [pc EXCEPT ![r] = "done"]

\* An exception reached the except clause of views.download_video.
Raise(r) ==
    /\ resp' = [resp EXCEPT ![r] = JsonResponse("Download failed", 500)]
    /\ pc' = [pc EXCEPT ![r] = "done"]

\* views.download_video up to the first external call, with the URL check
\* of YouTubeDownloader.download_video.
Receive(r) ==
    /\ pc[r] = "receive"
    /\ IF ~req[r].json_ok
       THEN Raise(r) /\ UNCHANGED result
       ELSE IF req[r].url = UrlEmpty
       THEN /\ resp' = [resp EXCEPT ![r] = JsonResponse("URL is required", 400)]
            /\ pc' = [pc EXCEPT ![r] = "done"]
            /\ UNCHANGED result
       ELSE IF get_platform(req[r].url) = "youtube"
       THEN IF ~is_youtube_url(req[r].url)
            THEN Fail(r, "Invalid YouTube URL!")
            ELSE /\ pc' = [pc EXCEPT ![r] = "extract"]
                 /\ UNCHANGED <<result, resp>>
       ELSE /\ pc' = [pc EXCEPT ![r] = "other"]
            /\ UNCHANGED <<result, resp>>
    /\ UNCHANGED <<req, avail, sel, audio_id, fs, handle, chunks, tmp_i, ops>>

\* get_video_info (one call of the extraction engine, then the quality map)
\* and the check of download_video that follows it.
GetVideoInfo(r) ==
    /\ pc[r] = "extract"
    /\ LET e == req[r].engine
           qualities ==
               IF e.kind = "info" THEN available_qualities(e.formats) ELSE EmptyMap
       IN /\ avail' = [avail EXCEPT ![r] = qualities]
          /\ Invoke(r, "extract", DOMAIN qualities # {})
          /\ IF DOMAIN qualities = {}
             THEN Fail(r, "No available formats found!")
             ELSE /\ pc' = [pc EXCEPT ![r] = "match"]
                  /\ UNCHANGED <<result, resp>>
    /\ UNCHANGED <<req, sel, audio_id, fs, handle, chunks, tmp_i>>

\* Mutant: the video fetch is started before the audio candidate is looked
\* for, so a missing audio track is not noticed before the fetch.
ResolveQualityFetchFirst(r) ==
    /\ pc[r] = "match"
    /\ LET selected == find_best_quality_match(req[r].quality, avail[r])
       IN /\ sel' = [sel EXCEPT ![r] = selected]
          /\ Invoke(r, "match", selected.value # NoQuality)
          /\ IF selected.value = NoQuality
             THEN Fail(r, "Quality not available!") /\ UNCHANGED audio_id
             ELSE IF avail[r][selected.value].type = "progressive"
             THEN /\ pc' = [pc EXCEPT ![r] = "progressive_fetch"]
                  /\ UNCHANGED <<result, resp, audio_id>>
             ELSE /\ audio_id' = [audio_id EXCEPT ![r] =
                         best_audio(req[r].engine.formats)]
                  /\ pc' = [pc EXCEPT ![r] = "video_fetch"]
                  /\ UNCHANGED <<result, resp>>
    /\ UNCHANGED <<req, avail, fs, handle, chunks, tmp_i>>

\* download_video from _find_best_quality_match to the branch on the format
\* type, and _download_and_merge up to its first fetch: the choice of the
\* audio track.
ResolveQuality(r) ==
    /\ pc[r] = "match"
    /\ LET selected == find_best_quality_match(req[r].quality, avail[r])
           best == best_audio(req[r].engine.formats)
       IN /\ sel' = [sel EXCEPT ![r] = selected]
          /\ Invoke(r, "match", selected.value # NoQuality)
          /\ IF selected.value = NoQuality
             THEN Fail(r, "Quality not available!") /\ UNCHANGED audio_id
             ELSE IF avail[r][selected.value].type = "progressive"
             THEN /\ pc' = [pc EXCEPT ![r] = "progressive_fetch"]
                  /\ UNCHANGED <<result, resp, audio_id>>
             ELSE IF best = 0
             THEN Fail(r, "No valid audio formats found!") /\ UNCHANGED audio_id
             ELSE /\ audio_id' = [audio_id EXCEPT ![r] = best]
                  /\ pc' = [pc EXCEPT ![r] = "video_fetch"]
                  /\ UNCHANGED <<result, resp>>
    /\ UNCHANGED <<req, avail, fs, handle, chunks, tmp_i>>

\* Mutant: a fetch whose error is swallowed, so the request goes on to the
\* next step without the file.
FetchSwallowingErrors(r, op, path, size, next) ==
    /\ \E ok \in BOOLEAN :
          /\ Invoke(r, op, ok)
          /\ fs' = IF ok THEN [fs EXCEPT ![path] = File(size, r)] ELSE fs
    /\ pc' = [pc EXCEPT ![r] = next]
    /\ UNCHANGED <<result, resp>>

\* One call of the fetch engine: it writes the file at path, or raises and
\* the except clause of the caller returns the error dictionary.
Fetch(r, op, path, size, next) ==
    \/ /\ Invoke(r, op, TRUE)
       /\ fs' = [fs EXCEPT ![path] = File(size, r)]
       /\ pc' = [pc EXCEPT ![r] = next]
       /\ UNCHANGED <<result, resp>>
    \/ /\ Invoke(r, op, FALSE)
       /\ Fail(r, "fetch engine error")
       /\ UNCHANGED fs

\* _download_progressive
DownloadProgressive(r) ==
    /\ pc[r] = "progressive_fetch"
    /\ \/ /\ Invoke(r, "progressive_fetch", TRUE)
          /\ fs' = [fs EXCEPT ![output_file(Title(r))] = File(req[r].engine.size, r)]
          /\ result' = [result EXCEPT ![r] = Success(output_file(Title(r)), <<>>)]
          /\ pc' = [pc EXCEPT ![r] = "serve"]
          /\ UNCHANGED resp
       \/ /\ Invoke(r, "progressive_fetch", FALSE)
          /\ Fail(r, "fetch engine error")
          /\ UNCHANGED fs
    /\ UNCHANGED <<req, avail, sel, audio_id, handle, chunks, tmp_i>>

\* _download_and_merge: "Download video"
FetchVideo(r) ==
    /\ pc[r] = "video_fetch"
    /\ Fetch(r, "video_fetch", video_file(Title(r)), TempSize, "audio_fetch")
    /\ UNCHANGED <<req, avail, sel, audio_id, handle, chunks, tmp_i>>

\* _download_and_merge: "Download audio"
FetchAudio(r) ==
    /\ pc[r] = "audio_fetch"
    /\ Fetch(r, "audio_fetch", audio_file(Title(r)), TempSize, "merge")
    /\ UNCHANGED <<req, avail, sel, audio_id, handle, chunks, tmp_i>>

\* _download_and_merge: "Merge using FFmpeg" (subprocess.run, check=True) and
\* the success dictionary. The mux tool cannot succeed without its inputs.
Merge(r) ==
    /\ pc[r] = "merge"
    /\ \/ /\ Exists(video_file(Title(r))) /\ Exists(audio_file(Title(r)))
          /\ Invoke(r, "merge", TRUE)
          /\ fs' = [fs EXCEPT ![output_file(Title(r))] = File(req[r].engine.size, r)]
          /\ result' = [result EXCEPT ![r] =
                 Success(output_file(Title(r)),
                         <<video_file(Title(r)), audio_file(Title(r))>>)]
          /\ pc' = [pc EXCEPT ![r] = "serve"]
          /\ UNCHANGED resp
       \/ /\ Invoke(r, "merge", FALSE)
          /\ Fail(r, "mux tool error")
          /\ UNCHANGED fs
    /\ UNCHANGED <<req, avail, sel, audio_id, handle, chunks, tmp_i>>

\* download_other_platforms: one engine call that extracts and downloads,
\* then the rename to the sanitized name.
DownloadOther(r) ==
    /\ pc[r] = "other"
    /\ LET e == req[r].engine
           final == output_file(views_sanitize_filename(e.title))
       IN \/ /\ e.kind = "info"
             /\ Invoke(r, "other_fetch", TRUE)
             /\ fs' = [fs EXCEPT ![final] = File(e.size, r)]
             /\ result' = [result EXCEPT ![r] = Success(final, <<>>)]
             /\ pc' = [pc EXCEPT ![r] = "serve"]
             /\ UNCHANGED resp
          \/ /\ Invoke(r, "other_fetch", FALSE)
             /\ Raise(r)
             /\ UNCHANGED <<fs, result>>
    /\ UNCHANGED <<req, avail, sel, audio_id, handle, chunks, tmp_i>>

\* serve_file: os.path.getsize and the response around the generator, which
\* has not started (the header file name of clean_filename is left out).
\* A missing file raises into views.download_video.
ServeFile(r) ==
    /\ pc[r] = "serve"
    /\ Invoke(r, "serve", Exists(result[r].file_path))
    /\ IF Exists(result[r].file_path)
       THEN /\ resp' = [resp EXCEPT ![r] =
                   StreamingHttpResponse(fs[result[r].file_path].size)]
            /\ pc' = [pc EXCEPT ![r] = "open"]
       ELSE Raise(r)
    /\ UNCHANGED <<req, avail, sel, audio_id, fs, result, handle, chunks, tmp_i>>

\* file_iterator: open(path, 'rb') at the first next() of the generator.
\* A missing file ends the body with an error, after the headers.
OpenFile(r) ==
    /\ pc[r] = "open"
    /\ IF Exists(result[r].file_path)
       THEN /\ handle' = [handle EXCEPT ![r] = fs[result[r].file_path].size]
            /\ pc' = [pc EXCEPT ![r] = "read"]
       ELSE /\ pc' = [pc EXCEPT ![r] = "done"]
            /\ UNCHANGED handle
    /\ UNCHANGED <<req, avail, sel, audio_id, fs, result, resp, chunks, tmp_i, ops>>

\* Mutant: a read that returns full chunks only, so the short last chunk
\* of the file is dropped.
ReadFullOnly(left) == IF left < chunk_size THEN 0 ELSE chunk_size

\* f.read(chunk_size): the length of the chunk read with `left` bytes left.
ReadLen(left) == IF left < chunk_size THEN left ELSE chunk_size

\* file_iterator: one turn of `while chunk := f.read(chunk_size)`; an empty
\* chunk ends the loop and the with-block closes the file.
ReadChunk(r) ==
    /\ pc[r] = "read"
    /\ LET n == ReadLen(handle[r])
       IN IF n > 0
          THEN /\ chunks' = [chunks EXCEPT ![r] = Append(@, n)]
               /\ handle' = [handle EXCEPT ![r] = @ - n]
               /\ UNCHANGED pc
          ELSE /\ handle' = [handle EXCEPT ![r] = Closed]
               /\ pc' = [pc EXCEPT ![r] = "remove_source"]
               /\ UNCHANGED chunks
    /\ UNCHANGED <<req, avail, sel, audio_id, fs, result, resp, tmp_i, ops>>

\* Mutant: the cleanup empties the download directory instead of removing
\* the one source file.
RemoveDirectory(r) ==
    /\ pc[r] = "remove_source"
    /\ fs' = [p \in Paths |-> NoFile]
    /\ tmp_i' = [tmp_i EXCEPT ![r] = 1]
    /\ pc' = [pc EXCEPT ![r] = "temp_exists"]
    /\ UNCHANGED <<req, avail, sel, audio_id, result, resp, handle, chunks, ops>>

\* file_iterator: os.remove(path); an OSError leaves the try block.
RemoveSource(r) ==
    /\ pc[r] = "remove_source"
    /\ IF Exists(result[r].file_path)
       THEN /\ fs' = [fs EXCEPT ![result[r].file_path] = NoFile]
            /\ tmp_i' = [tmp_i EXCEPT ![r] = 1]
            /\ pc' = [pc EXCEPT ![r] = "temp_exists"]
       ELSE /\ pc' = [pc EXCEPT ![r] = "done"]
            /\ UNCHANGED <<fs, tmp_i>>
    /\ UNCHANGED <<req, avail, sel, audio_id, result, resp, handle, chunks, ops>>

\* file_iterator: the loop over temp_files, at os.path.exists(temp_file).
TempExists(r) ==
    /\ pc[r] = "temp_exists"
    /\ IF tmp_i[r] > Len(result[r].temp_files)
       THEN pc' = [pc EXCEPT ![r] = "done"] /\ UNCHANGED tmp_i
       ELSE IF Exists(result[r].temp_files[tmp_i[r]])
       THEN pc' = [pc EXCEPT ![r] = "temp_remove"] /\ UNCHANGED tmp_i
       ELSE tmp_i' = [tmp_i EXCEPT ![r] = @ + 1] /\ UNCHANGED pc
    /\ UNCHANGED <<req, avail, sel, audio_id, fs, result, resp, handle, chunks, ops>>

\* file_iterator: os.remove(temp_file); an OSError leaves the try block.
TempRemove(r) ==
    /\ pc[r] = "temp_remove"
    /\ IF Exists(result[r].temp_files[tmp_i[r]])
       THEN /\ fs' = [fs EXCEPT ![result[r].temp_files[tmp_i[r]]] = NoFile]
            /\ tmp_i' = [tmp_i EXCEPT ![r] = @ + 1]
            /\ pc' = [pc EXCEPT ![r] = "temp_exists"]
       ELSE /\ pc' = [pc EXCEPT ![r] = "done"]
            /\ UNCHANGED <<fs, tmp_i>>
    /\ UNCHANGED <<req, avail, sel, audio_id, result, resp, handle, chunks, ops>>

\* ------------------------------------------------------- specifications

Next ==
    \E r \in Reqs :
        \/ Receive(r)
        \/ GetVideoInfo(r)
        \/ ResolveQuality(r)
        \/ DownloadProgressive(r)
        \/ FetchVideo(r)
        \/ FetchAudio(r)
        \/ Merge(r)
        \/ DownloadOther(r)
        \/ ServeFile(r)
        \/ OpenFile(r)
        \/ ReadChunk(r)
        \/ RemoveSource(r)
        \/ TempExists(r)
        \/ TempRemove(r)

\* Two concurrent requests.
Spec == Init /\ [][Next]_vars

\* One request, every request body and every file size.
SpecSolo == InitSolo /\ [][Next]_vars

NextMatch == GetVideoInfo(1) \/ ResolveQuality(1)

\* get_video_info and _find_best_quality_match on every format list.
SpecMatch == InitMatch /\ [][NextMatch]_vars

\* ----------------------------------------------------------------- claims

\* The request has ended with a Failure result of the downloader.
EndedInFailure(r) == pc[r] = "done" /\ result[r].status = "error"

\* The request has ended with a Success result whose body was read to the end.
EndedFullyRead(r) ==
    pc[r] = "done" /\ result[r].status = "success" /\ handle[r] = Closed

\* The intermediate files request r created that are still in the directory.
Intermediates(r) ==
    {p \in Paths \cap {video_file(Title(r)), audio_file(Title(r))} :
        Exists(p) /\ fs[p].by = r}

\* C1: once a YouTube download request has ended, with a Failure or with a
\* Success whose stream was fully read, none of the intermediate files
\* <title>_video.mp4 and <title>_audio.mp4 it created remains.
C1_TempFilesCleanedUp ==
    \A r \in Reqs :
        (EndedInFailure(r) \/ EndedFullyRead(r)) => Intermediates(r) = {}

\* The resolution a preference label names; 0 for any other label.
LabelHeight(q) ==
    CASE q = "2160p" -> 2160
      [] q = "1440p" -> 1440
      [] q = "1080p" -> 1080
      [] q = "720p" -> 720
      [] q = "480p" -> 480
      [] q = "360p" -> 360
      [] q = "240p" -> 240
      [] q = "144p" -> 144
      [] OTHER -> 0

\* The keys of the map that are labels of the preference list.
PreferenceKeys(available) == {q \in DOMAIN available : LabelHeight(q) > 0}

\* _find_best_quality_match has returned for request r, which asked for
\* `requested`, and `requested` is not itself a key of its non-empty map.
Matched(r, requested) ==
    /\ sel[r].ret # "none"
    /\ req[r].quality = requested
    /\ requested \notin DOMAIN avail[r]
    /\ DOMAIN avail[r] # {}

\* C2, as claimed: for every non-empty QualityMap that get_video_info can
\* build and requested = "best", the match returns a key of the map, the one
\* that comes first in the preference order.
C2_BestReturnsKeyOfEveryMap ==
    \A r \in Reqs :
        Matched(r, "best") =>
            /\ sel[r].value \in DOMAIN avail[r]
            /\ \A k \in PreferenceKeys(avail[r]) :
                   LabelHeight(k) <= LabelHeight(sel[r].value)

\* C2, amended: for requested = "best", a map that holds at least one label
\* of the preference list yields the highest-resolution such label, returned
\* by the first loop; a map that holds none of them (its keys come from
\* format_note alone) yields None.
C2_BestIsHighestPreferenceKey ==
    \A r \in Reqs :
        Matched(r, "best") =>
            IF PreferenceKeys(avail[r]) = {}
            THEN sel[r].value = NoQuality
            ELSE /\ sel[r].value \in PreferenceKeys(avail[r])
                 /\ sel[r].ret = "first_loop"
                 /\ \A k \in PreferenceKeys(avail[r]) :
                        LabelHeight(k) <= LabelHeight(sel[r].value)

\* C2 witness: "best" resolved on a map with a preference label and a
\* format_note key of a higher resolution.
C2_Witness ==
    /\ Matched(1, "best")
    /\ DOMAIN avail[1] = {"4320p", "720p"}
    /\ sel[1] = [value |-> "720p", ret |-> "first_loop"]

\* C3, as claimed: for every non-empty QualityMap and requested = "worst",
\* the match returns a key of the map, the one that comes last in the
\* preference order, and the first loop never returns.
C3_WorstReturnsKeyOfEveryMap ==
    \A r \in Reqs :
        Matched(r, "worst") =>
            /\ sel[r].value \in DOMAIN avail[r]
            /\ sel[r].ret # "first_loop"
            /\ \A k \in PreferenceKeys(avail[r]) :
                   LabelHeight(sel[r].value) <= LabelHeight(k)

\* C3, amended: for requested = "worst", a map that holds at least one label
\* of the preference list yields the lowest-resolution such label, returned
\* by the second loop and never by the first; a map that holds none of them
\* yields None.
C3_WorstIsLowestPreferenceKey ==
    \A r \in Reqs :
        Matched(r, "worst") =>
            IF PreferenceKeys(avail[r]) = {}
            THEN sel[r].value = NoQuality /\ sel[r].ret = "end"
            ELSE /\ sel[r].value \in PreferenceKeys(avail[r])
                 /\ sel[r].ret = "second_loop"
                 /\ \A k \in PreferenceKeys(avail[r]) :
                        LabelHeight(sel[r].value) <= LabelHeight(k)

\* C3 witness: "worst" resolved on a map with two preference labels.
C3_Witness ==
    /\ Matched(1, "worst")
    /\ DOMAIN avail[1] = {"2160p", "240p"}
    /\ sel[1] = [value |-> "240p", ret |-> "second_loop"]

RECURSIVE SumSeq(_)
SumSeq(s) == IF s = <<>> THEN 0 ELSE Head(s) + SumSeq(Tail(s))

\* C4: serving a file of any size yields a finite sequence of chunks of
\* 8192 bytes each, only the last of which may be shorter; once the sequence
\* is exhausted its total length is the byte count of Content-Length; the
\* source file is still there while chunks remain and is deleted once the
\* last chunk has been yielded.
C4_ChunkedServe ==
    \A r \in Reqs :
        resp[r].kind = "stream" =>
            /\ \A i \in 1..Len(chunks[r]) : chunks[r][i] \in 1..8192
            /\ \A i \in 1..(Len(chunks[r]) - 1) : chunks[r][i] = 8192
            /\ SumSeq(chunks[r]) <= resp[r].length
            /\ Len(chunks[r]) * 8192 < resp[r].length + 8192
            /\ handle[r] = Closed => SumSeq(chunks[r]) = resp[r].length
            /\ pc[r] \in {"open", "read", "remove_source"} =>
                   Exists(result[r].file_path)
            /\ pc[r] = "done" =>
                   handle[r] = Closed /\ ~Exists(result[r].file_path)

\* C4 witness: a file of 8193 bytes was served as a full chunk and a chunk
\* of one byte, and is gone.
C4_Witness ==
    /\ pc[1] = "done"
    /\ resp[1] = StreamingHttpResponse(8193)
    /\ chunks[1] = <<8192, 1>>
    /\ ~Exists(result[1].file_path)

\* Request r has ended after a video-only quality was selected for a video
\* none of whose formats has both an audio codec and a bitrate.
AudioMissing(r) ==
    /\ pc[r] = "done"
    /\ sel[r].value \in DOMAIN avail[r]
    /\ avail[r][sel[r].value].type = "video"
    /\ \A i \in 1..Len(req[r].engine.formats) :
           \/ req[r].engine.formats[i].acodec = CodecNone
           \/ req[r].engine.formats[i].abr = NoAbr

\* The operations request r has invoked, in order.
OpNames(r) == [i \in 1..Len(ops[r]) |-> ops[r][i].op]

Invoked(r) == {ops[r][i].op : i \in 1..Len(ops[r])}

\* The files request r wrote that are in the directory.
Written(r) == {p \in Paths : Exists(p) /\ fs[p].by = r}

\* C5, as claimed: when a video-only quality is requested and no format is
\* a usable audio candidate, the request ends with Failure("No valid audio
\* formats found!") and the video stream has been fetched to
\* <title>_video.mp4 before that failure.
C5_VideoFetchedBeforeAudioFailure ==
    \A r \in Reqs :
        AudioMissing(r) =>
            /\ result[r] = Error("No valid audio formats found!")
            /\ "video_fetch" \in Invoked(r)

\* C5, amended: in that case the request ends with Failure("No valid audio
\* formats found!") before any fetch: the audio candidate is looked for
\* first, the fetch engine and the mux tool are never invoked, and the
\* request writes no file.
C5_AudioFailureBeforeAnyFetch ==
    \A r \in Reqs :
        AudioMissing(r) =>
            /\ result[r] = Error("No valid audio formats found!")
            /\ resp[r].kind = "json"
            /\ OpNames(r) = <<"extract", "match">>
            /\ Written(r) = {}

\* C5 witness: a request for the video-only 720p format of a video without
\* any audio track has ended.
C5_Witness ==
    /\ AudioMissing(1)
    /\ sel[1].value = "720p"
    /\ result[1].status = "error"

\* The paths serve_file is to delete for request r: the source file and
\* every path of temp_files.
Listed(r) ==
    {result[r].file_path}
        \cup {result[r].temp_files[i] : i \in 1..Len(result[r].temp_files)}

\* C6: on exhaustion of the chunk sequence serve_file attempts to delete the
\* source file and every path of temp_files, and a deletion that fails does
\* not prevent the deletion of any other listed path: when the cleanup has
\* ended, no listed file that the request wrote is left.
C6_FailedDeletionSkipsNothing ==
    \A r \in Reqs :
        (pc[r] = "done" /\ handle[r] = Closed) =>
            \A p \in Listed(r) : ~(Exists(p) /\ fs[p].by = r)

\* The file name stem of request r: the title as its platform's branch
\* sanitizes it.
FileTitle(r) ==
    IF get_platform(req[r].url) = "youtube"
    THEN sanitize_filename(req[r].engine.title)
    ELSE views_sanitize_filename(req[r].engine.title)

\* Request r holds a Success result whose stream is not yet exhausted.
Serving(r) ==
    result[r].status = "success" /\ pc[r] \in {"serve", "open", "read"}

\* Request r has written a file and has not yet exhausted its stream.
InFlight(r) == pc[r] \in {"audio_fetch", "merge", "serve", "open", "read"}

\* Path p is in the directory now and not after the step.
Deleted(p) == Exists(p) /\ fs'[p] = NoFile

\* C7, as claimed: for any interleaving of two requests, also two whose
\* sanitized titles coincide, a file referenced by the Success result of a
\* YouTube download is deleted by no step but that request's own, up to the
\* exhaustion of its stream.
C7_NoForeignDeletion ==
    [][\A r \in Reqs : \A p \in Paths :
          (/\ get_platform(req[r].url) = "youtube"
           /\ Serving(r)
           /\ p \in Listed(r)
           /\ Deleted(p)) => pc'[r] # pc[r]]_vars

\* The file names request r can write: three in the YouTube branch, one in
\* the branch of the other platforms.
RequestPaths(r) ==
    IF get_platform(req[r].url) = "youtube"
    THEN {output_file(FileTitle(r)), video_file(FileTitle(r)),
          audio_file(FileTitle(r))}
    ELSE {output_file(FileTitle(r))}

\* C7, amended: for two requests that share no file name, a file a request
\* has written, and so every file its Success result refers to, is deleted
\* by no step but that request's own from its creation up to the exhaustion
\* of the request's stream.
C7_NoForeignDeletionOfOtherNames ==
    [][\A r \in Reqs : \A p \in Paths :
          (/\ \A o \in Reqs \ {r} : RequestPaths(o) \cap RequestPaths(r) = {}
           /\ InFlight(r)
           /\ fs[p].by = r
           /\ Deleted(p)) => pc'[r] # pc[r]]_vars

\* C7 witness: request 1 has finished its cleanup while request 2, of
\* another title, is still reading, and every file of request 2 is there.
C7_Witness ==
    /\ RequestPaths(1) \cap RequestPaths(2) = {}
    /\ pc[1] = "done" /\ handle[1] = Closed /\ tmp_i[1] = 3
    /\ pc[2] = "read" /\ Len(result[2].temp_files) = 2
    /\ \A p \in Listed(2) : Exists(p) /\ fs[p].by = 2

\* C8: the download path reports a metadata-extraction failure (the engine
\* raised or returned no info) and an empty format list (info extracted, no
\* usable quality) with different Failure messages.
C8_DistinctFailureReasons ==
    \A r1 \in Reqs : \A r2 \in Reqs :
        (/\ EndedInFailure(r1) /\ "extract" \in Invoked(r1)
         /\ req[r1].engine.kind # "info"
         /\ EndedInFailure(r2) /\ "extract" \in Invoked(r2)
         /\ req[r2].engine.kind = "info" /\ DOMAIN avail[r2] = {})
            => result[r1].message # result[r2].message

\* The last operation of request r, when it failed.
FailedOp(r) ==
    IF ops[r] # <<>> /\ ~ops[r][Len(ops[r])].ok
    THEN ops[r][Len(ops[r])].op ELSE "none"

\* C9: the status code of every failure of the download endpoint follows
\* the taxonomy: 400 for invalid input (no JSON, no URL, not a YouTube URL),
\* no formats and quality not found; 500 for a fetch that raised and for a
\* mux tool that exited non-zero.
C9_StatusFollowsTaxonomy ==
    \A r \in Reqs :
        (pc[r] = "done" /\ resp[r].kind = "json") =>
            /\ (ops[r] = <<>>) => resp[r].status = 400
            /\ FailedOp(r) \in {"extract", "match"} => resp[r].status = 400
            /\ FailedOp(r) \in {"progressive_fetch", "video_fetch", "audio_fetch",
                                 "merge", "other_fetch"} => resp[r].status = 500

\* The two orders of operations of a YouTube download.
YouTubeOrders ==
    { <<"extract", "match", "progressive_fetch", "serve">>,
      <<"extract", "match", "video_fetch", "audio_fetch", "merge", "serve">> }

IsPrefix(s, t) == Len(s) <= Len(t) /\ SubSeq(t, 1, Len(s)) = s

\* C10: within one YouTube download request the operations run in the order
\* metadata extraction, quality match, then one progressive fetch or video
\* fetch, audio fetch and merge, then serve; each is invoked at most once and
\* only after every earlier one succeeded, and the first one that fails ends
\* the request with an error response, no later one being invoked.
C10_SequentialNoRetry ==
    \A r \in Reqs :
        get_platform(req[r].url) = "youtube" =>
            /\ \E t \in YouTubeOrders : IsPrefix(OpNames(r), t)
            /\ \A i \in 1..(Len(ops[r]) - 1) : ops[r][i].ok
            /\ FailedOp(r) # "none" => (pc[r] = "done" /\ resp[r].kind = "json")
            /\ result[r].status = "error" => pc[r] = "done"

\* C10 witness: request 1 went through video fetch, audio fetch, merge and
\* serve and has ended; request 2 ended at its failed audio fetch.
C10_Witness ==
    /\ pc[1] = "done" /\ handle[1] = Closed
    /\ OpNames(1) =
          <<"extract", "match", "video_fetch", "audio_fetch", "merge", "serve">>
    /\ pc[2] = "done" /\ FailedOp(2) = "audio_fetch"
    /\ OpNames(2) = <<"extract", "match", "video_fetch", "audio_fetch">>

\* ------------------------------------------------ the QualityMap's entries

\* The format's acodec is present and is not 'none': it has an audio codec.
CarriesAudio(f) == f.acodec # KeyAbsent /\ f.acodec # CodecNone

\* get_video_info has built request r's map from the engine's format list.
Extracted(r) ==
    /\ req[r].engine.kind = "info"
    /\ Len(ops[r]) > 0
    /\ ops[r][1].op = "extract"

\* The format an entry of request r's map was stored for.
EntryFormat(r, k) == req[r].engine.formats[avail[r][k].id]

\* C11: every entry of the QualityMap built by get_video_info is stored as
\* progressive when its format has an audio codec (acodec present and not
\* 'none') and as video-only when it has none, and a selected format that
\* carries its own audio is downloaded with a single fetch, never by the
\* video fetch, audio fetch and merge.
C11_KindByAudioCodec ==
    \A r \in Reqs :
        Extracted(r) =>
            \A k \in DOMAIN avail[r] :
                /\ avail[r][k].type =
                       IF CarriesAudio(EntryFormat(r, k))
                       THEN "progressive" ELSE "video"
                /\ (sel[r].value = k /\ CarriesAudio(EntryFormat(r, k))) =>
                       pc[r] \notin {"video_fetch", "audio_fetch", "merge"}

\* -------------------------------------------------- the QualityMap's keys

\* The six labels that get_video_info derives from a height.
CanonicalLabels == {"2160p", "1440p", "1080p", "720p", "480p", "360p"}

HasCanonicalHeight(f) == \E q \in CanonicalLabels : LabelHeight(q) = f.height

\* The key a format is stored under; "" when it is stored under none.
KeyOf(f) ==
    IF HasCanonicalHeight(f)
    THEN CHOOSE q \in CanonicalLabels : LabelHeight(q) = f.height
    ELSE f.format_note

\* The formats of request r that are stored under key k.
StoredUnder(r, k) ==
    {i \in 1..Len(req[r].engine.formats) : KeyOf(req[r].engine.formats[i]) = k}

\* C12, as claimed: a format contributes a key to the QualityMap only when
\* its height is one of 2160, 1440, 1080, 720, 480, 360; a format of any
\* other height, or of none, is dropped, so every key of the map is one of
\* the six canonical labels.
C12_OnlyCanonicalHeightsAreKeys ==
    \A r \in Reqs :
        Extracted(r) =>
            /\ DOMAIN avail[r] \subseteq CanonicalLabels
            /\ DOMAIN avail[r] =
                   {q \in CanonicalLabels :
                       \E i \in 1..Len(req[r].engine.formats) :
                           req[r].engine.formats[i].height = LabelHeight(q)}

\* C12, amended: a format whose height is one of the six is stored under the
\* label of that height, whatever its format_note; a format of any other
\* height, or of none, is stored under its format_note and is dropped only
\* when that note is empty or missing; each key holds the last format of the
\* list stored under it.
C12_KeyIsHeightLabelOrFormatNote ==
    \A r \in Reqs :
        Extracted(r) =>
            /\ DOMAIN avail[r] =
                   {KeyOf(req[r].engine.formats[i]) :
                       i \in 1..Len(req[r].engine.formats)} \ {""}
            /\ \A k \in DOMAIN avail[r] :
                   /\ avail[r][k].id \in StoredUnder(r, k)
                   /\ \A i \in StoredUnder(r, k) : i <= avail[r][k].id

\* C12 witness: the map built from a format without a height, kept under its
\* format_note "240p", followed by a format of height 720 whose note "4320p"
\* gave way to the label "720p".
C12_Witness ==
    /\ Extracted(1)
    /\ Len(req[1].engine.formats) = 2
    /\ req[1].engine.formats[1].height = 0
    /\ req[1].engine.formats[1].format_note = "240p"
    /\ req[1].engine.formats[2].height = 720
    /\ req[1].engine.formats[2].format_note = "4320p"
    /\ DOMAIN avail[1] = {"240p", "720p"}
    /\ avail[1]["240p"].id = 1
    /\ avail[1]["720p"].id = 2

====
